---------------------------- MODULE Spec2Model ----------------------------
(***************************************************************************)
(* Model of the chat bot of xln-ai-bot-main/main.py: the inbound message   *)
(* handler (handle_message), the battle session kept by the session store, *)
(* and the concurrent fan-out of one question to several backends          *)
(* (ask_selected_models / ask_quorum / query_model_with_status).           *)
(*                                                                         *)
(* Scheduling.  main() builds the Application without concurrent_updates   *)
(* and registers handle_message as a blocking handler, so the update       *)
(* fetcher awaits one handle_message before it takes the next update from  *)
(* update_queue: handlers never interleave with each other.  Inside one    *)
(* handler the backend units launched by asyncio.gather interleave at      *)
(* their awaits (the HTTP call, the status lock, the transport edit).      *)
(*                                                                         *)
(* The session store (module db) is not part of the sources; it is         *)
(* modelled from the specification: an append-only log of records plus a   *)
(* battle flag with its start timestamp, both driven by the text handed    *)
(* to save_message_to_db (main.py never calls any other writer).           *)
(***************************************************************************)
EXTENDS Integers, Sequences, FiniteSets, TLC

\* ---------------------------------------------------------------- bounds
MaxEvents     == 2  \* updates delivered in a run of Spec (every kind of text)
MaxChatEvents == 5  \* updates delivered in a run of SpecChat (no quorum question)
MaxQ2Events   == 3  \* updates delivered in a run of SpecQ2 (q2 commands, chat text)
MaxTextLen    == 7  \* characters of a text handed to split_long_message in SpecFun
MaxLimit      == 4  \* largest max_length handed to split_long_message in SpecFun
MaxEditEvents == 1  \* updates delivered in a run of SpecEdit (failing status edits)
MaxLines      == 2  \* lines of a summary handed to parse_scores_from_summary in SpecFun
MaxRows       == 4  \* entries of a score table handed to format_scoreboard in SpecFun
MaxMdLen      == 5  \* characters of a text handed to remove_markdown in SpecFun
MaxRequests   == 2  \* /transcribe requests served by one STT server process in SpecStt
MaxQueue      == 2  \* updates waiting in update_queue at one time

\* ------------------------------------------------------ program constants
NoTs == 0           \* "no timestamp" (None)
LastN == 100        \* get_last_messages(100)
MaxScore == 1000    \* "if 0 <= score <= 1000"

QUORUM_MODELS ==
  << [id |-> "deepseek/deepseek-chat", name |-> "DeepSeek"],
     [id |-> "openai/gpt-4o",          name |-> "ChatGPT"],
     [id |-> "x-ai/grok-4-fast",       name |-> "Grok"] >>

FINAL_MODEL == [id |-> "anthropic/claude-4.5-sonnet", name |-> "Claude"]

AvailableNames == <<"deepseek", "chatgpt", "grok", "claude", "gpt4", "gpt-4o">>

AVAILABLE_MODELS(n) ==
  CASE n = "deepseek" -> [id |-> "deepseek/deepseek-chat",      name |-> "DeepSeek"]
    [] n = "chatgpt"  -> [id |-> "openai/gpt-4o",               name |-> "ChatGPT"]
    [] n = "grok"     -> [id |-> "x-ai/grok-4-fast",            name |-> "Grok"]
    [] n = "claude"   -> [id |-> "anthropic/claude-4.5-sonnet", name |-> "Claude"]
    [] n = "gpt4"     -> [id |-> "openai/gpt-4o",               name |-> "ChatGPT"]
    [] n = "gpt-4o"   -> [id |-> "openai/gpt-4o",               name |-> "ChatGPT"]

Range(s) == {s[i] : i \in 1..Len(s)}

\* ------------------------------------------------------------ inbound text
\* A message text, by what the handler's prefix tests and parse_q2_models
\* read of it: the command prefix, and for q2( the names between the
\* parentheses, whether ")" is present and whether a question follows;
\* and by what the sanitizer reads of it: whether it holds a phrase of the
\* block list of format_message_context.
Txt(kind) ==
  [kind |-> kind, names |-> <<>>, paren |-> TRUE, question |-> TRUE, inj |-> FALSE]
Q2(names, paren, question) ==
  [kind |-> "q2", names |-> names, paren |-> paren, question |-> question, inj |-> FALSE]
\* The same text with a phrase of the block list in it.
Override(text) == [text EXCEPT !.inj = TRUE]

Texts ==
  { Txt("start_battle"), Txt("stop_battle"), Txt("q1"), Txt("other"),
    Q2(<<"deepseek", "grok">>, TRUE, TRUE),
    Q2(<<"chatgpt", "gpt4">>, TRUE, TRUE),
    Q2(<<"grok", "glaude">>, TRUE, TRUE) }

\* from_user is optional in the transport's Message type.
Users == {"alice", "none"}

Updates == [text : Texts, user : Users]

\* The texts of SpecChat: the battle commands, plain chat text and a
\* question to one named backend.
ChatTexts ==
  { Txt("start_battle"), Txt("stop_battle"), Txt("other"),
    Q2(<<"claude">>, TRUE, TRUE) }

ChatUpdates == [text : ChatTexts, user : Users]

\* The texts of SpecQ2: plain chat text, a well-formed question to one named
\* backend, and q2( texts that parse_q2_models rejects: unknown names among
\* known ones, no ")", nothing between the parentheses, nothing after ")".
Q2Texts ==
  { Txt("other"),
    Override(Txt("other")),
    Q2(<<"claude">>, TRUE, TRUE),
    Override(Q2(<<"claude">>, TRUE, TRUE)),
    Q2(<<"gpt5", "grok", "glaude">>, TRUE, TRUE),
    Q2(<<"deepseek">>, FALSE, TRUE),
    Q2(<<>>, TRUE, TRUE),
    Q2(<<"glaude">>, TRUE, FALSE) }

Q2Updates == [text : Q2Texts, user : Users]

\* The texts of SpecEdit: questions to two named backends, with different
\* display names and with one shared display name.
EditTexts ==
  { Q2(<<"deepseek", "grok">>, TRUE, TRUE),
    Q2(<<"chatgpt", "gpt4">>, TRUE, TRUE) }

EditUpdates == [text : EditTexts, user : Users]

NoUpdate == [text |-> Txt("none"), user |-> "none"]

VARIABLES
  update_queue,       \* updates fetched from the transport, not yet handled
  arrived,            \* number of updates delivered so far
  db,                 \* session store: the log of ChatRecords
  battle_active,      \* session store: BattleSession.active
  battle_started_at,  \* session store: BattleSession.started_at (NoTs = unset)
  hpc,                \* where the one running handle_message is suspended
  cur,                \* the update being handled
  sent,               \* transport operations issued while handling cur
  summaries,          \* every battle-summary request issued so far
  last_accepted,      \* the last battle command that passed its state check
  models,             \* fan-out: the ordered (id, name) list being queried
  battle_mode,        \* fan-out: battle_mode read by ask_selected_models / ask_quorum
  status_dict,        \* fan-out: display name -> "waiting.." | "done" | "error"
  status_lock,        \* fan-out: unit holding status_lock (0 = free)
  tpc,                \* fan-out: where each query_model_with_status unit is
  http,               \* fan-out: how each unit's HTTP request ended
  response,           \* fan-out: what ask_openrouter returned to each unit
  requests,           \* fan-out: HTTP requests issued for cur, in issue order
  completed,          \* fan-out: units in the order they returned
  model_responses,    \* fan-out: what asyncio.gather returned
  arg,                \* SpecFun: the function applied and its arguments
  ret,                \* SpecFun: what the function returned
  fpc,                \* SpecFun: "idle" | "called" | "returned" | "sent"
  inference_lock,     \* STT server: request holding inference_lock (0 = free)
  model_cache,        \* STT server: model_cache is not None
  temp_file,          \* STT server: whose audio the file at temp_path holds (0 = no file)
  rpc,                \* STT server: where each /transcribe request thread is
  loaded,             \* STT server: whose audio each request's transcribe call read
  answer              \* STT server: the HTTP response of each request

fan  == << models, battle_mode, status_dict, status_lock, tpc, http, response,
           requests, completed, model_responses >>
store == << db, battle_active, battle_started_at >>
call  == << arg, ret, fpc >>
stt   == << inference_lock, model_cache, temp_file, rpc, loaded, answer >>

vars == << update_queue, arrived, db, battle_active, battle_started_at,
           hpc, cur, sent, summaries, last_accepted, models, battle_mode,
           status_dict, status_lock, tpc, http, response, requests, completed,
           model_responses, arg, ret, fpc,
           inference_lock, model_cache, temp_file, rpc, loaded, answer >>

\* ------------------------------------------------------------ session store
\* db.save_message_to_db: append one record stamped by the store; a stored
\* start_battle / stop_battle command sets / clears the battle session.
save_record(log, text, user) ==
  Append(log, [text |-> text, user |-> user, ts |-> Len(log) + 1])

save_active(active, text) ==
  CASE text = "start_battle" -> TRUE
    [] text = "stop_battle"  -> FALSE
    [] OTHER                 -> active

\* Variant: a stored stop_battle leaves the start time in place.
save_started_at_kept(started, log, text) ==
  IF text = "start_battle" THEN Len(log) + 1 ELSE started

save_started_at(started, log, text) ==
  CASE text = "start_battle" -> Len(log) + 1
    [] text = "stop_battle"  -> NoTs
    [] OTHER                 -> started

\* db.is_battle_mode_active: (battle_mode, battle_start_datetime)
is_battle_mode_active == << battle_active, battle_started_at >>

\* db.get_last_battle_start: time of the most recent stored start_battle
get_last_battle_start(log) ==
  LET S == {i \in 1..Len(log) : log[i].text = "start_battle"}
  IN  IF S = {} THEN NoTs ELSE log[CHOOSE i \in S : \A j \in S : j <= i].ts

\* db.get_messages_since / db.get_last_messages
get_messages_since(log, t) == SelectSeq(log, LAMBDA r : r.ts >= t)

get_last_messages(log, n) ==
  IF Len(log) <= n THEN log ELSE SubSeq(log, Len(log) - n + 1, Len(log))

\* ------------------------------------------------------------ battle summary
\* generate_battle_summary up to its HTTP request: the request it issues,
\* or model "none" when no battle start is on record.
summary_request(log) ==
  LET t0 == get_last_battle_start(log)
  IN  IF t0 = NoTs
        THEN [model |-> "none", since |-> NoTs, history |-> <<>>]
        ELSE [model |-> FINAL_MODEL.id, since |-> t0,
              history |-> get_messages_since(log, t0)]

\* The three ways an HTTP request to a backend ends: status 200 with a
\* body, another status, or an exception raised by the client.
Outcomes == {"ok", "status", "exception"}

\* generate_battle_summary from the HTTP reply on: (summary text, scores)
summary_result(outcome) ==
  CASE outcome = "ok"        -> [summary |-> "summary text", scores |-> "parsed"]
    [] outcome = "status"    -> [summary |-> "Error generating battle summary: API returned status",
                                 scores |-> "empty"]
    [] outcome = "exception" -> [summary |-> "Error generating battle summary: exception",
                                 scores |-> "empty"]

\* One operation on the transport: reply_text or edit_text, with its text.
Msg(op, kind, body) == [op |-> op, kind |-> kind, body |-> body]

\* ---------------------------------------------------------------- prompts
\* Variant: the last-N window whatever the battle state.
get_context_data_last_n(log) ==
  [history |-> get_last_messages(log, LastN),
   battle_mode |-> is_battle_mode_active[1],
   battle_start |-> is_battle_mode_active[2]]

\* get_context_data: (history, battle_mode, battle_start_datetime)
get_context_data(log) ==
  LET bm == is_battle_mode_active[1]
      t0 == is_battle_mode_active[2]
  IN  [history |-> IF bm /\ t0 # NoTs THEN get_messages_since(log, t0)
                                      ELSE get_last_messages(log, LastN),
       battle_mode |-> bm, battle_start |-> t0]

\* A phrase matched by injection_patterns.
OverridePhrase == "ignore previous instructions"

\* The user's words in a message text: `plain`, or the blocked phrase.
user_message(text, plain) == IF text.inj THEN OverridePhrase ELSE plain

\* A piece of prompt or history text holds a phrase of the block list.
HasOverride(t) == t \in {OverridePhrase, "q2: ignore previous instructions"}

\* format_message_context, the re.sub loop: every match of a pattern of
\* the block list is replaced by the empty string.
sanitized_message(message) == IF message = OverridePhrase THEN "" ELSE message

\* format_message_context: the history label follows the battle_mode
\* argument, the history text is the one handed in, the question is the
\* sanitized message.
format_message_context(message, history, bm) ==
  [label   |-> IF bm THEN "Battle history (all messages since battle started):"
                     ELSE "Last 100 messages from chat:",
   history |-> history,
   question |-> sanitized_message(message),
   battle_instructions |-> bm]

\* ask_openrouter up to its HTTP request
openrouter_request(log, unit, model_id, bm, message) ==
  [unit |-> unit, model |-> model_id,
   prompt |-> format_message_context(message, get_context_data(log).history, bm)]

\* Variant: a failed request yields no text instead of an error text.
ask_openrouter_drops_failure(model_id, outcome) ==
  IF outcome = "ok"
    THEN [kind |-> "answer", model |-> model_id, detail |-> "content"]
    ELSE [kind |-> "none", model |-> "none", detail |-> "none"]

\* The ways a call of ask_openrouter ends: those of its HTTP request, an
\* exception while the context (history, llms.txt) is read, and an
\* exception while the reply is decoded.
ClientOutcomes == Outcomes \cup {"context_error", "decode_error"}

\* Variant: the context is read before the try block is entered.
ask_openrouter_context_outside_try(model_id, outcome) ==
  CASE outcome = "ok"            -> [kind |-> "answer",     model |-> model_id, detail |-> "content"]
    [] outcome = "status"        -> [kind |-> "Error from", model |-> model_id, detail |-> "API returned status"]
    [] outcome = "exception"     -> [kind |-> "Error from", model |-> model_id, detail |-> "exception"]
    [] outcome = "context_error" -> [kind |-> "raised",     model |-> model_id, detail |-> "exception"]
    [] outcome = "decode_error"  -> [kind |-> "Error from", model |-> model_id, detail |-> "exception"]

\* ask_openrouter: the text it returns. Everything from the read of the
\* context to the decoding of the reply is inside one try block whose
\* handler returns "Error from {model}: {exception}".
ask_openrouter(model_id, outcome) ==
  CASE outcome = "ok"            -> [kind |-> "answer",     model |-> model_id, detail |-> "content"]
    [] outcome = "status"        -> [kind |-> "Error from", model |-> model_id, detail |-> "API returned status"]
    [] outcome = "exception"     -> [kind |-> "Error from", model |-> model_id, detail |-> "exception"]
    [] outcome = "context_error" -> [kind |-> "Error from", model |-> model_id, detail |-> "exception"]
    [] outcome = "decode_error"  -> [kind |-> "Error from", model |-> model_id, detail |-> "exception"]

NoResponse == [kind |-> "none", model |-> "none", detail |-> "none"]

\* ------------------------------------------------------------ status board
NoStatus == [n \in {} |-> "waiting.."]

\* format_status_message: one line per entry of model_order, in that order
format_status_message(sd, model_order) ==
  [i \in 1..Len(model_order) |->
     [name |-> model_order[i].name, status |-> sd[model_order[i].name]]]

\* Variant: the unit leaves its entry as it was.
status_left_waiting(resp) == "waiting.."

\* query_model_with_status, the status written once ask_openrouter returned
status_after_call(resp) == "done"

\* Variant: results collected as the units complete (as_completed).
gather_as_completed(results, order) ==
  [i \in 1..Len(results) |-> results[order[i]]]

\* asyncio.gather: the units' return values in the order the units were
\* given; `order` is the order in which they completed.
gather(results, order) == results

\* ------------------------------------------------------------ q2 parsing
\* Variant: unknown names are skipped and the known ones are selected.
parse_q2_models_skips_unknown(text) ==
  LET known == SelectSeq(text.names, LAMBDA n : n \in Range(AvailableNames))
      Err(m) == [ok |-> FALSE, models |-> <<>>, error |-> m, unknown |-> <<>>]
  IN  IF ~ text.paren THEN Err("Missing closing parenthesis in q2 command")
      ELSE IF known = <<>> THEN Err("No models specified in q2 command")
      ELSE IF ~ text.question THEN Err("No question provided in q2 command")
      ELSE [ok |-> TRUE, models |-> [i \in 1..Len(known) |-> AVAILABLE_MODELS(known[i])],
            error |-> "", unknown |-> <<>>]

\* parse_q2_models: (models, question) or (None, error message)
parse_q2_models(text) ==
  LET names   == text.names
      invalid == SelectSeq(names, LAMBDA n : n \notin Range(AvailableNames))
      sel     == [i \in 1..Len(names) |->
                    IF names[i] \in Range(AvailableNames)
                      THEN AVAILABLE_MODELS(names[i])
                      ELSE [id |-> "none", name |-> "none"]]
      Err(m, inv) == [ok |-> FALSE, models |-> <<>>, error |-> m, unknown |-> inv]
  IN  IF ~ text.paren THEN Err("Missing closing parenthesis in q2 command", <<>>)
      ELSE IF names = <<>> THEN Err("No models specified in q2 command", <<>>)
      ELSE IF ~ text.question THEN Err("No question provided in q2 command", <<>>)
      ELSE IF invalid # <<>> THEN Err("Unknown models", invalid)
      ELSE [ok |-> TRUE, models |-> sel, error |-> "", unknown |-> <<>>]

\* ------------------------------------------------------------------ text
\* A text is a sequence of characters. Three characters stand for what
\* split_long_message distinguishes: a letter, a blank and a newline.
Chars == {"a", " ", "\n"}

\* The characters str.strip() removes.
Whitespace == {" ", "\n"}

TextsUpTo(n) == UNION {[1..k -> Chars] : k \in 0..n}

RECURSIVE lstrip(_)
lstrip(s) == IF s # <<>> /\ Head(s) \in Whitespace THEN lstrip(Tail(s)) ELSE s

RECURSIVE rstrip(_)
rstrip(s) ==
  IF s # <<>> /\ s[Len(s)] \in Whitespace THEN rstrip(SubSeq(s, 1, Len(s) - 1)) ELSE s

\* str.strip()
strip(s) == lstrip(rstrip(s))

\* text.split('\n\n'): the pieces between the occurrences of the
\* separator, found from left to right without overlap
RECURSIVE split_blank_line(_)
split_blank_line(t) ==
  LET I == {i \in 1..(Len(t) - 1) : t[i] = "\n" /\ t[i + 1] = "\n"}
  IN  IF I = {} THEN << t >>
      ELSE LET i == CHOOSE x \in I : \A y \in I : x <= y
           IN  << SubSeq(t, 1, i - 1) >> \o split_blank_line(SubSeq(t, i + 2, Len(t)))

\* "\n\n".join(chunks)
RECURSIVE join_blank_line(_)
join_blank_line(cs) ==
  IF cs = <<>> THEN <<>>
  ELSE IF Len(cs) = 1 THEN cs[1]
  ELSE cs[1] \o << "\n", "\n" >> \o join_blank_line(Tail(cs))

\* Variant: a text of exactly max_length characters is split.
fits_below(text, max_length) == Len(text) < max_length

\* split_long_message, "if len(text) <= max_length"
fits(text, max_length) == Len(text) <= max_length

\* Variant: paragraphs of one chunk are joined by a single newline.
append_paragraph_newline(current_chunk, paragraph) ==
  IF current_chunk # <<>> THEN current_chunk \o << "\n" >> \o paragraph
                          ELSE paragraph

\* split_long_message, the branch that extends current_chunk
append_paragraph(current_chunk, paragraph) ==
  IF current_chunk # <<>> THEN current_chunk \o << "\n", "\n" >> \o paragraph
                          ELSE paragraph

\* split_long_message, "if current_chunk: chunks.append(current_chunk.strip())"
flush(chunks, current_chunk) ==
  IF current_chunk # <<>> THEN Append(chunks, strip(current_chunk)) ELSE chunks

\* Variant: the separator is not counted when a paragraph is fitted.
RECURSIVE pack_without_separator(_, _, _, _)
pack_without_separator(paragraphs, chunks, current_chunk, max_length) ==
  IF paragraphs = <<>>
    THEN [chunks |-> chunks, current_chunk |-> current_chunk]
    ELSE LET paragraph == Head(paragraphs) IN
           IF Len(current_chunk) + Len(paragraph) > max_length
             THEN pack_without_separator(Tail(paragraphs), flush(chunks, current_chunk),
                                         paragraph, max_length)
             ELSE pack_without_separator(Tail(paragraphs), chunks,
                                         append_paragraph(current_chunk, paragraph),
                                         max_length)

\* split_long_message, the loop over the paragraphs
RECURSIVE pack(_, _, _, _)
pack(paragraphs, chunks, current_chunk, max_length) ==
  IF paragraphs = <<>>
    THEN [chunks |-> chunks, current_chunk |-> current_chunk]
    ELSE LET paragraph == Head(paragraphs) IN
           IF Len(current_chunk) + Len(paragraph) + 2 > max_length
             THEN pack(Tail(paragraphs), flush(chunks, current_chunk), paragraph, max_length)
             ELSE pack(Tail(paragraphs), chunks,
                       append_paragraph(current_chunk, paragraph), max_length)

split_long_message(text, max_length) ==
  IF fits(text, max_length) THEN << text >>
  ELSE LET p      == pack(split_blank_line(text), <<>>, <<>>, max_length)
           chunks == flush(p.chunks, p.current_chunk)
       IN  IF chunks # <<>> THEN chunks ELSE << SubSeq(text, 1, max_length) >>

\* ---------------------------------------------------------------- scores
\* A summary text is a sequence of lines, each naming one participant and
\* one number of at most four digits in one of four phrasings:
\*   participant  "Participant: bob - Score: 850"
\*   colon        "bob: 850"
\*   points       "bob has 850 points"   (likewise with the two Russian units)
\*   bare         "bob 850"
ScoreNames == {"bob", "eve"}

ScoreValues == {0, MaxScore, MaxScore + 1}

LineForms == {"participant", "colon", "points", "bare"}

SummaryLines == [form : LineForms, name : ScoreNames, value : ScoreValues]

SummariesUpTo(n) == UNION {[1..k -> SummaryLines] : k \in 0..n}

\* parse_scores_from_summary, patterns: the first, the second, the three
\* "name ... number unit" patterns (which differ in the unit only) and the
\* last one
patterns == << "participant_score", "name_sep_number", "name_number_unit", "name_score" >>

\* The (name, number) groups a pattern finds on one line. On a participant
\* line the second pattern matches "Score: 850", with "Score" as the name.
match(pattern, line) ==
  CASE pattern = "participant_score" /\ line.form = "participant" ->
         << [name |-> line.name, score |-> line.value] >>
    [] pattern = "name_sep_number" /\ line.form = "participant" ->
         << [name |-> "Score", score |-> line.value] >>
    [] pattern = "name_sep_number" /\ line.form = "colon" ->
         << [name |-> line.name, score |-> line.value] >>
    [] pattern = "name_number_unit" /\ line.form = "points" ->
         << [name |-> line.name, score |-> line.value] >>
    [] pattern = "name_score" /\ line.form = "participant" ->
         << [name |-> line.name, score |-> line.value] >>
    [] OTHER -> <<>>

\* re.findall(pattern, summary_text): the matches in text order
RECURSIVE findall(_, _)
findall(pattern, lines) ==
  IF lines = <<>> THEN <<>>
  ELSE match(pattern, Head(lines)) \o findall(pattern, Tail(lines))

\* The matches in the order the two nested loops visit them.
RECURSIVE cascade_matches(_, _)
cascade_matches(ps, lines) ==
  IF ps = <<>> THEN <<>>
  ELSE findall(Head(ps), lines) \o cascade_matches(Tail(ps), lines)

\* Variant: every number of up to four digits is accepted.
valid_score_four_digits(score) == 0 <= score

\* "if 0 <= score <= 1000"
valid_score(score) == 0 <= score /\ score <= MaxScore

\* "username in scores" on a table kept in insertion order
HasName(scores, name) == \E k \in 1..Len(scores) : scores[k].name = name

ScoreOf(scores, name) ==
  scores[CHOOSE k \in 1..Len(scores) : scores[k].name = name].score

\* "scores[username] = score": a new key is appended, a known key keeps
\* its place
SetScore(scores, m) ==
  IF HasName(scores, m.name)
    THEN [k \in 1..Len(scores) |-> IF scores[k].name = m.name THEN m ELSE scores[k]]
    ELSE Append(scores, m)

\* The body of the pattern loop for one match
keep_highest(scores, m) ==
  IF valid_score(m.score) /\ (~ HasName(scores, m.name) \/ ScoreOf(scores, m.name) < m.score)
    THEN SetScore(scores, m)
    ELSE scores

RECURSIVE fold_highest(_, _)
fold_highest(scores, ms) ==
  IF ms = <<>> THEN scores
  ELSE fold_highest(keep_highest(scores, Head(ms)), Tail(ms))

\* The stoplist of the fallback (compared in lower case).
StopWords == {"Score", "Participant"}

\* Fallback: the first number of the line and the first word before it.
fallback_match(line) ==
  [name  |-> IF line.form = "participant" THEN "Participant" ELSE line.name,
   score |-> line.value]

\* The body of the fallback loop for one line
fallback_assign(scores, m) ==
  IF valid_score(m.score) /\ m.name \notin StopWords
    THEN SetScore(scores, m)
    ELSE scores

RECURSIVE fold_fallback(_, _)
fold_fallback(scores, lines) ==
  IF lines = <<>> THEN scores
  ELSE fold_fallback(fallback_assign(scores, fallback_match(Head(lines))), Tail(lines))

\* parse_scores_from_summary: the table in insertion order
parse_scores_from_summary(lines) ==
  LET scores == fold_highest(<<>>, cascade_matches(patterns, lines))
  IN  IF scores # <<>> THEN scores ELSE fold_fallback(<<>>, lines)

\* ------------------------------------------------------------ scoreboard
\* A score table (dict[str, int]) is the sequence of its items in insertion
\* order; no name occurs twice.
BoardNames == {"ann", "bob", "cat", "dan", "eve"}

BoardEntries == [name : BoardNames, score : {0, MaxScore}]

ScoreTables(n) ==
  {t \in UNION {[1..k -> BoardEntries] : k \in 0..n} :
     \A i, j \in 1..Len(t) : t[i].name = t[j].name => i = j}

medals == << "gold", "silver", "bronze" >>

\* Variant: an item is placed before the items of equal score.
insert_by_score_before_ties(sorted, e) ==
  LET k == Cardinality({i \in 1..Len(sorted) : sorted[i].score > e.score})
  IN  SubSeq(sorted, 1, k) \o << e >> \o SubSeq(sorted, k + 1, Len(sorted))

\* One step of the stable descending sort: the item goes after every item
\* whose score is not lower.
insert_by_score(sorted, e) ==
  LET k == Cardinality({i \in 1..Len(sorted) : sorted[i].score >= e.score})
  IN  SubSeq(sorted, 1, k) \o << e >> \o SubSeq(sorted, k + 1, Len(sorted))

\* sorted(scores.items(), key=lambda x: x[1], reverse=True)
RECURSIVE sorted_scores(_)
sorted_scores(scores) ==
  IF scores = <<>> THEN <<>>
  ELSE insert_by_score(sorted_scores(SubSeq(scores, 1, Len(scores) - 1)),
                       scores[Len(scores)])

\* format_scoreboard: the rows in order and the winner line, or the
\* "Unable to extract scores" text for an empty table
format_scoreboard(scores) ==
  IF scores = <<>>
    THEN [unable |-> TRUE, rows |-> <<>>, winner |-> <<>>]
    ELSE LET sorted == sorted_scores(scores) IN
           [unable |-> FALSE,
            rows   |-> [idx \in 1..Len(sorted) |->
                          [medal |-> IF idx <= Len(medals) THEN medals[idx] ELSE "  ",
                           name  |-> sorted[idx].name,
                           score |-> sorted[idx].score]],
            winner |-> << [name |-> sorted[1].name, score |-> sorted[1].score] >>]

\* -------------------------------------------------------- remove_markdown
\* A text is a sequence of characters: emphasis and code markers, a letter
\* and a space; "tick" stands for the backquote. Over these characters the
\* substitutions for links, headers, underscores, strikethrough, rules and
\* runs of newlines match nothing.
MdChars == {"*", "tick", "a", " "}

MdTexts(n) == UNION {[1..k -> MdChars] : k \in 0..n}

\* text[i:i+k] consists of k characters d
starts_with(t, i, d, k) ==
  /\ i + k - 1 <= Len(t)
  /\ \A j \in i..(i + k - 1) : t[j] = d

\* Index of the last character of the longest run, starting at i, of
\* characters outside excl (i - 1 when that run is empty).
run_end(t, i, excl) ==
  LET stops == {j \in i..Len(t) : t[j] \in excl}
  IN  IF stops = {} THEN Len(t)
      ELSE (CHOOSE j \in stops : \A jj \in stops : j <= jj) - 1

\* re.sub of a fenced code block (three ticks, anything, lazily, three
\* ticks) by '', from index i on: the leftmost fence is
\* removed together with everything up to the nearest closing fence.
RECURSIVE code_blocks(_, _)
code_blocks(t, i) ==
  IF i > Len(t) THEN <<>>
  ELSE LET closes == {j \in (i + 3)..Len(t) : starts_with(t, j, "tick", 3)} IN
         IF starts_with(t, i, "tick", 3) /\ closes # {}
           THEN code_blocks(t, (CHOOSE j \in closes : \A jj \in closes : j <= jj) + 3)
           ELSE << t[i] >> \o code_blocks(t, i + 1)

\* re.sub of  d{k} ([^excl]+) d{k}  by group 1, from index i on: leftmost
\* matches, not overlapping; the group is the whole run of characters
\* outside excl, which has to be followed by the k closing markers.
RECURSIVE unwrap(_, _, _, _, _)
unwrap(t, i, d, k, excl) ==
  IF i > Len(t) THEN <<>>
  ELSE LET e == run_end(t, i + k, excl) IN
         IF starts_with(t, i, d, k) /\ e >= i + k /\ starts_with(t, e + 1, d, k)
           THEN SubSeq(t, i + k, e) \o unwrap(t, e + k + 1, d, k, excl)
           ELSE << t[i] >> \o unwrap(t, i + 1, d, k, excl)

\* re.sub(r' {2,}', ' ', text)
RECURSIVE collapse_spaces(_)
collapse_spaces(t) ==
  IF Len(t) < 2 THEN t
  ELSE IF t[1] = " " /\ t[2] = " " THEN collapse_spaces(Tail(t))
  ELSE << t[1] >> \o collapse_spaces(Tail(t))

remove_markdown(text) ==
  IF text = <<>> THEN text
  ELSE LET blocks == code_blocks(text, 1)
           code   == unwrap(blocks, 1, "tick", 1, {"tick"})
           bold3  == unwrap(code, 1, "*", 3, {"*"})
           bold2  == unwrap(bold3, 1, "*", 2, {"*"})
           italic == unwrap(bold2, 1, "*", 1, {"*", "\n"})
       IN  strip(collapse_spaces(italic))

\* ------------------------------------------------------------------- Init
BotInit ==
  /\ update_queue = <<>>
  /\ arrived = 0
  /\ db = <<>>
  /\ battle_active = FALSE
  /\ battle_started_at = NoTs
  /\ hpc = "idle"
  /\ cur = NoUpdate
  /\ sent = <<>>
  /\ summaries = <<>>
  /\ last_accepted = "none"
  /\ models = <<>>
  /\ battle_mode = FALSE
  /\ status_dict = NoStatus
  /\ status_lock = 0
  /\ tpc = <<>>
  /\ http = <<>>
  /\ response = <<>>
  /\ requests = <<>>
  /\ completed = <<>>
  /\ model_responses = <<>>

\* The /transcribe requests of one run of the STT server.
Requests == 1..MaxRequests

NoAnswer == [status |-> 0]

\* The STT server process has started (stt-server.py:11-44), no request has
\* arrived.
SttInit ==
  /\ inference_lock = 0
  /\ model_cache = FALSE
  /\ temp_file = 0
  /\ rpc = [r \in Requests |-> "new"]
  /\ loaded = [r \in Requests |-> 0]
  /\ answer = [r \in Requests |-> NoAnswer]

\* No function application is under way.
NoArg == [fn |-> "none"]

Init ==
  /\ BotInit
  /\ SttInit
  /\ arg = NoArg
  /\ ret = <<>>
  /\ fpc = "idle"

\* The arguments of the function applications of SpecFun.
SplitArgs ==
  [fn : {"split_long_message"}, text : TextsUpTo(MaxTextLen), max_length : 1..MaxLimit]

ModelIds == {AVAILABLE_MODELS(AvailableNames[j]).id : j \in 1..Len(AvailableNames)}

ClientArgs == [fn : {"ask_openrouter"}, model : ModelIds, outcome : ClientOutcomes]

ScoreArgs == [fn : {"parse_scores_from_summary"}, lines : SummariesUpTo(MaxLines)]

BoardArgs == [fn : {"format_scoreboard"}, scores : ScoreTables(MaxRows)]

MarkdownArgs == [fn : {"remove_markdown"}, text : MdTexts(MaxMdLen)]

InitFun ==
  /\ BotInit
  /\ SttInit
  /\ arg \in SplitArgs \cup ClientArgs \cup ScoreArgs \cup BoardArgs \cup MarkdownArgs
  /\ ret = <<>>
  /\ fpc = "called"

\* The transport delivers an update of the target chat; it waits in
\* update_queue until the running handler (if any) has returned.
ArriveFrom(S, max) ==
  /\ arrived < max
  /\ Len(update_queue) < MaxQueue
  /\ \E u \in S : update_queue' = Append(update_queue, u)
  /\ arrived' = arrived + 1
  /\ UNCHANGED << store, hpc, cur, sent, summaries, last_accepted, fan >>
  /\ UNCHANGED << call, stt >>

Arrive == ArriveFrom(Updates, MaxEvents)

ArriveChat == ArriveFrom(ChatUpdates, MaxChatEvents)

ArriveQ2 == ArriveFrom(Q2Updates, MaxQ2Events)

ArriveEdit == ArriveFrom(EditUpdates, MaxEditEvents)

\* The update fetcher hands the next update to handle_message.
Next_update == Head(update_queue)

\* Variant: updates are handled concurrently, so that a battle command is
\* handled while the calls of a question are in flight.
CanHandle_concurrently(kind) ==
  /\ \/ hpc = "idle"
     \/ hpc = "gather" /\ kind \in {"start_battle", "stop_battle"}
  /\ update_queue # <<>>
  /\ Next_update.text.kind = kind

\* Updates are handled one at a time (the Application is built without
\* concurrent_updates): the next one is taken when the handler has returned.
CanHandle(kind) ==
  /\ hpc = "idle"
  /\ update_queue # <<>>
  /\ Next_update.text.kind = kind

Take ==
  /\ update_queue' = Tail(update_queue)
  /\ cur' = Next_update

\* db writes of one save_message_to_db(chat.id, user.id, username, text)
Save(text, user) ==
  /\ db' = save_record(db, text, user)
  /\ battle_active' = save_active(battle_active, text)
  /\ battle_started_at' = save_started_at(battle_started_at, db, text)

NoSave == UNCHANGED << db, battle_active, battle_started_at >>

\* "if user: save_message_to_db(...)"
SaveIfUser(text, user) == IF user # "none" THEN Save(text, user) ELSE NoSave

\* The fan-out state of a handler that launched no fan-out (or has returned).
ClearFan ==
  /\ models' = <<>>
  /\ battle_mode' = FALSE
  /\ status_dict' = NoStatus
  /\ status_lock' = 0
  /\ tpc' = <<>>
  /\ http' = <<>>
  /\ response' = <<>>
  /\ requests' = <<>>
  /\ completed' = <<>>
  /\ model_responses' = <<>>

\* Variant: the start command is stored before the state check.
StartBattle_saves_first ==
  /\ CanHandle("start_battle")
  /\ Take
  /\ SaveIfUser("start_battle", Next_update.user)
  /\ IF is_battle_mode_active[1]
       THEN /\ sent' = << Msg("reply", "error", "Battle is already active") >>
            /\ UNCHANGED last_accepted
       ELSE /\ sent' = << Msg("reply", "announce", "START_BATTLE_MESSAGE") >>
            /\ last_accepted' = "start"
  /\ UNCHANGED << arrived, hpc, summaries, fan >>
  /\ UNCHANGED << call, stt >>

\* handle_message, text.startswith("start_battle")
StartBattle ==
  /\ CanHandle("start_battle")
  /\ Take
  /\ IF is_battle_mode_active[1]
       THEN /\ sent' = << Msg("reply", "error", "Battle is already active") >>
            /\ NoSave
            /\ UNCHANGED last_accepted
       ELSE /\ SaveIfUser("start_battle", Next_update.user)
            /\ sent' = << Msg("reply", "announce", "START_BATTLE_MESSAGE") >>
            /\ last_accepted' = "start"
  /\ UNCHANGED << arrived, hpc, summaries, fan >>
  /\ UNCHANGED << call, stt >>

\* handle_message, text.startswith("stop_battle"), up to the await of the
\* summary request inside generate_battle_summary
StopBattle ==
  /\ CanHandle("stop_battle")
  /\ Take
  /\ IF ~ is_battle_mode_active[1]
       THEN /\ sent' = << Msg("reply", "error", "No active battle found") >>
            /\ NoSave
            /\ UNCHANGED << hpc, summaries, last_accepted >>
       ELSE /\ SaveIfUser("stop_battle", Next_update.user)
            /\ last_accepted' = "stop"
            /\ LET req == summary_request(db') IN
                 IF req.model = "none"
                   THEN /\ sent' = << Msg("reply", "progress", "Generating battle summary..."),
                                      Msg("edit", "final",
                                          [summary |-> "No battle history found.",
                                           scores |-> "empty"]) >>
                        /\ UNCHANGED << hpc, summaries >>
                   ELSE /\ sent' = << Msg("reply", "progress", "Generating battle summary...") >>
                        /\ hpc' = "summary"
                        /\ summaries' = Append(summaries, req)
  /\ UNCHANGED << arrived, fan >>
  /\ UNCHANGED << call, stt >>

\* The summary backend answers (or fails); the handler formats the
\* scoreboard, delivers the final message and returns.
SummaryReturns ==
  /\ hpc = "summary"
  /\ \E o \in Outcomes :
       sent' = Append(sent, Msg("edit", "final", summary_result(o)))
  /\ hpc' = "idle"
  /\ UNCHANGED << update_queue, arrived, store, cur, summaries, last_accepted, fan >>
  /\ UNCHANGED << call, stt >>

\* Variant: text that matches no command is archived and acknowledged.
HandleOther_acknowledges ==
  /\ CanHandle("other")
  /\ Take
  /\ SaveIfUser(user_message(Next_update.text, "other"), Next_update.user)
  /\ sent' = << Msg("reply", "progress", "Noted") >>
  /\ UNCHANGED << arrived, hpc, summaries, last_accepted, fan >>
  /\ UNCHANGED << call, stt >>

\* handle_message, text that matches no command: archived, nothing else
HandleOther ==
  /\ CanHandle("other")
  /\ Take
  /\ SaveIfUser(user_message(Next_update.text, "other"), Next_update.user)
  /\ sent' = <<>>
  /\ UNCHANGED << arrived, hpc, summaries, last_accepted, fan >>
  /\ UNCHANGED << call, stt >>

\* Variant: the board is created but not published before the units start.
Dispatch_without_board(ms, message) ==
  LET bm == is_battle_mode_active[1]
      sd == [n \in {ms[i].name : i \in 1..Len(ms)} |-> "waiting.."]
  IN  /\ models' = ms
      /\ battle_mode' = bm
      /\ status_dict' = sd
      /\ status_lock' = 0
      /\ tpc' = [i \in 1..Len(ms) |-> "call"]
      /\ http' = [i \in 1..Len(ms) |-> "pending"]
      /\ response' = [i \in 1..Len(ms) |-> NoResponse]
      /\ requests' = [i \in 1..Len(ms) |-> openrouter_request(db', i, ms[i].id, bm, message)]
      /\ completed' = <<>>
      /\ model_responses' = <<>>
      /\ sent' = << Msg("reply", "progress", "Thinking...") >>
      /\ hpc' = "gather"

\* ask_selected_models / ask_quorum up to "await asyncio.gather(*tasks)":
\* battle_mode is read, the board is created and published, and every unit
\* runs to its first await, the HTTP request of ask_openrouter.
Dispatch(ms, message) ==
  LET bm == is_battle_mode_active[1]
      sd == [n \in {ms[i].name : i \in 1..Len(ms)} |-> "waiting.."]
  IN  /\ models' = ms
      /\ battle_mode' = bm
      /\ status_dict' = sd
      /\ status_lock' = 0
      /\ tpc' = [i \in 1..Len(ms) |-> "call"]
      /\ http' = [i \in 1..Len(ms) |-> "pending"]
      /\ response' = [i \in 1..Len(ms) |-> NoResponse]
      /\ requests' = [i \in 1..Len(ms) |-> openrouter_request(db', i, ms[i].id, bm, message)]
      /\ completed' = <<>>
      /\ model_responses' = <<>>
      /\ sent' = << Msg("reply", "progress", "Thinking..."),
                    Msg("edit", "status", format_status_message(sd, ms)) >>
      /\ hpc' = "gather"

\* Variant: the q2( text is stored like any other text, before it is parsed.
HandleQ2_saves_before_parse ==
  /\ CanHandle("q2")
  /\ Take
  /\ LET p == parse_q2_models(Next_update.text) IN
       IF ~ p.ok
         THEN /\ sent' = << Msg("reply", "error", [error |-> p.error, unknown |-> p.unknown,
                                                    available |-> AvailableNames]) >>
              /\ SaveIfUser("q2 text", Next_update.user)
              /\ UNCHANGED << hpc, fan >>
         ELSE /\ SaveIfUser(IF Next_update.text.inj THEN "q2: ignore previous instructions"
                                                        ELSE "q2: question",
                            Next_update.user)
              /\ Dispatch(p.models, user_message(Next_update.text, "question"))
  /\ UNCHANGED << arrived, summaries, last_accepted >>
  /\ UNCHANGED << call, stt >>

\* handle_message, text.startswith("q2(")
HandleQ2 ==
  /\ CanHandle("q2")
  /\ Take
  /\ LET p == parse_q2_models(Next_update.text) IN
       IF ~ p.ok
         THEN /\ sent' = << Msg("reply", "error", [error |-> p.error, unknown |-> p.unknown,
                                                    available |-> AvailableNames]) >>
              /\ NoSave
              /\ UNCHANGED << hpc, fan >>
         ELSE /\ SaveIfUser(IF Next_update.text.inj THEN "q2: ignore previous instructions"
                                                        ELSE "q2: question",
                            Next_update.user)
              /\ Dispatch(p.models, user_message(Next_update.text, "question"))
  /\ UNCHANGED << arrived, summaries, last_accepted >>
  /\ UNCHANGED << call, stt >>

\* Variant: the question is dispatched without being stored.
HandleQ1_unsaved ==
  /\ CanHandle("q1")
  /\ Take
  /\ NoSave
  /\ Dispatch(QUORUM_MODELS, user_message(Next_update.text, "question"))
  /\ UNCHANGED << arrived, summaries, last_accepted >>
  /\ UNCHANGED << call, stt >>

\* handle_message, text.startswith(TRIGGER)
HandleQ1 ==
  /\ CanHandle("q1")
  /\ Take
  /\ SaveIfUser(user_message(Next_update.text, "question"), Next_update.user)
  /\ Dispatch(QUORUM_MODELS, user_message(Next_update.text, "question"))
  /\ UNCHANGED << arrived, summaries, last_accepted >>
  /\ UNCHANGED << call, stt >>

\* The units of the fan-out run while their launcher awaits the gather, and
\* go on running when the gather has raised to the launcher.
Running == hpc \in {"gather", "failed"}

\* query_model_with_status: ask_openrouter returns to unit i
BackendReturns(i) ==
  /\ Running
  /\ i \in 1..Len(models)
  /\ tpc[i] = "call"
  /\ \E o \in Outcomes :
       /\ http' = [http EXCEPT ![i] = o]
       /\ response' = [response EXCEPT ![i] = ask_openrouter(models[i].id, o)]
  /\ tpc' = [tpc EXCEPT ![i] = "lock"]
  /\ UNCHANGED << update_queue, arrived, store, hpc, cur, sent, summaries,
                  last_accepted, models, battle_mode, status_dict, status_lock,
                  requests, completed, model_responses >>
  /\ UNCHANGED << call, stt >>

\* Variant: the unit renders a board of its own, on which only its own
\* entry has changed.
TakeLock_own_board(i) ==
  /\ Running
  /\ i \in 1..Len(models)
  /\ tpc[i] = "lock"
  /\ status_lock = 0
  /\ status_lock' = i
  /\ status_dict' = [status_dict EXCEPT ![models[i].name] = status_after_call(response[i])]
  /\ sent' = Append(sent, Msg("edit", "status",
                format_status_message([n \in DOMAIN status_dict |->
                                         IF n = models[i].name
                                           THEN status_after_call(response[i])
                                           ELSE "waiting.."], models)))
  /\ tpc' = [tpc EXCEPT ![i] = "edit"]
  /\ UNCHANGED << update_queue, arrived, store, hpc, cur, summaries,
                  last_accepted, models, battle_mode, http, response, requests,
                  completed, model_responses >>
  /\ UNCHANGED << call, stt >>

\* Variant: the entry is written and the edit issued without the lock.
TakeLock_unlocked(i) ==
  /\ Running
  /\ i \in 1..Len(models)
  /\ tpc[i] = "lock"
  /\ status_lock' = i
  /\ status_dict' = [status_dict EXCEPT ![models[i].name] = status_after_call(response[i])]
  /\ sent' = Append(sent, Msg("edit", "status", format_status_message(status_dict', models)))
  /\ tpc' = [tpc EXCEPT ![i] = "edit"]
  /\ UNCHANGED << update_queue, arrived, store, hpc, cur, summaries,
                  last_accepted, models, battle_mode, http, response, requests,
                  completed, model_responses >>
  /\ UNCHANGED << call, stt >>

\* query_model_with_status: unit i enters "async with status_lock", writes
\* its entry, renders the board and issues status_msg.edit_text, which it
\* awaits with the lock held
TakeLock(i) ==
  /\ Running
  /\ i \in 1..Len(models)
  /\ tpc[i] = "lock"
  /\ status_lock = 0
  /\ status_lock' = i
  /\ status_dict' = [status_dict EXCEPT ![models[i].name] = status_after_call(response[i])]
  /\ sent' = Append(sent, Msg("edit", "status", format_status_message(status_dict', models)))
  /\ tpc' = [tpc EXCEPT ![i] = "edit"]
  /\ UNCHANGED << update_queue, arrived, store, hpc, cur, summaries,
                  last_accepted, models, battle_mode, http, response, requests,
                  completed, model_responses >>
  /\ UNCHANGED << call, stt >>

\* query_model_with_status: the edit is done, unit i leaves the lock and
\* returns (model_name, response)
EditDone(i) ==
  /\ Running
  /\ i \in 1..Len(models)
  /\ tpc[i] = "edit"
  /\ status_lock' = 0
  /\ tpc' = [tpc EXCEPT ![i] = "done"]
  /\ completed' = Append(completed, i)
  /\ UNCHANGED << update_queue, arrived, store, hpc, cur, sent, summaries,
                  last_accepted, models, battle_mode, status_dict, http, response,
                  requests, model_responses >>
  /\ UNCHANGED << call, stt >>

\* What the except branch of query_model_with_status returns in place of
\* the backend's text: "Error: {exception}"
except_result(model_id) ==
  [kind |-> "Error", model |-> model_id, detail |-> "edit_text raised"]

\* query_model_with_status: the awaited edit raises; the lock is released
\* on the way out of "async with" and the unit enters its except branch,
\* where the backend's text is no longer used.
EditFails(i) ==
  /\ Running
  /\ i \in 1..Len(models)
  /\ tpc[i] = "edit"
  /\ status_lock' = 0
  /\ response' = [response EXCEPT ![i] = except_result(models[i].id)]
  /\ tpc' = [tpc EXCEPT ![i] = "elock"]
  /\ UNCHANGED << update_queue, arrived, store, hpc, cur, sent, summaries,
                  last_accepted, models, battle_mode, status_dict, http, requests,
                  completed, model_responses >>
  /\ UNCHANGED << call, stt >>

\* query_model_with_status, except branch: unit i takes the lock again,
\* writes "error", renders the board and issues a second edit_text
TakeLockError(i) ==
  /\ Running
  /\ i \in 1..Len(models)
  /\ tpc[i] = "elock"
  /\ status_lock = 0
  /\ status_lock' = i
  /\ status_dict' = [status_dict EXCEPT ![models[i].name] = "error"]
  /\ sent' = Append(sent, Msg("edit", "status", format_status_message(status_dict', models)))
  /\ tpc' = [tpc EXCEPT ![i] = "eedit"]
  /\ UNCHANGED << update_queue, arrived, store, hpc, cur, summaries,
                  last_accepted, models, battle_mode, http, response, requests,
                  completed, model_responses >>
  /\ UNCHANGED << call, stt >>

\* query_model_with_status, except branch: the second edit is done and the
\* unit returns (model_name, "Error: ...")
ErrorEditDone(i) ==
  /\ Running
  /\ i \in 1..Len(models)
  /\ tpc[i] = "eedit"
  /\ status_lock' = 0
  /\ tpc' = [tpc EXCEPT ![i] = "done"]
  /\ completed' = Append(completed, i)
  /\ UNCHANGED << update_queue, arrived, store, hpc, cur, sent, summaries,
                  last_accepted, models, battle_mode, status_dict, http, response,
                  requests, model_responses >>
  /\ UNCHANGED << call, stt >>

\* query_model_with_status, except branch: the second edit raises too and
\* the exception leaves the unit
ErrorEditFails(i) ==
  /\ Running
  /\ i \in 1..Len(models)
  /\ tpc[i] = "eedit"
  /\ status_lock' = 0
  /\ tpc' = [tpc EXCEPT ![i] = "raised"]
  /\ UNCHANGED << update_queue, arrived, store, hpc, cur, sent, summaries,
                  last_accepted, models, battle_mode, status_dict, http, response,
                  requests, completed, model_responses >>
  /\ UNCHANGED << call, stt >>

\* What unit i returned: (model_name, response)
unit_result(i) == [name |-> models[i].name, response |-> response[i]]

\* asyncio.gather returns once every unit has returned.
GatherReturns ==
  /\ hpc = "gather"
  /\ \A i \in 1..Len(models) : tpc[i] = "done"
  /\ model_responses' = gather([i \in 1..Len(models) |-> unit_result(i)], completed)
  /\ hpc' = "gathered"
  /\ UNCHANGED << update_queue, arrived, store, cur, sent, summaries,
                  last_accepted, models, battle_mode, status_dict, status_lock,
                  tpc, http, response, requests, completed >>
  /\ UNCHANGED << call, stt >>

\* asyncio.gather (return_exceptions not set) raises the first exception
\* that leaves a unit to its awaiter at once; the other units are not
\* cancelled. ask_selected_models / ask_quorum and handle_message catch
\* nothing, so the handler ends with the exception.
GatherRaises ==
  /\ hpc = "gather"
  /\ \E i \in 1..Len(models) : tpc[i] = "raised"
  /\ hpc' = "failed"
  /\ UNCHANGED << update_queue, arrived, store, cur, sent, summaries,
                  last_accepted, models, battle_mode, status_dict, status_lock,
                  tpc, http, response, requests, completed, model_responses >>
  /\ UNCHANGED << call, stt >>

\* The last unit left running by a failed handler has ended; the next
\* update is taken up from here on.
StragglersEnd ==
  /\ hpc = "failed"
  /\ \A i \in 1..Len(models) : tpc[i] \in {"done", "raised"}
  /\ hpc' = "idle"
  /\ ClearFan
  /\ UNCHANGED << update_queue, arrived, store, cur, sent, summaries, last_accepted >>
  /\ UNCHANGED << call, stt >>

\* handle_message after ask_selected_models returned: the labelled answers
\* are delivered and the handler returns.
DeliverQ2 ==
  /\ hpc = "gathered"
  /\ cur.text.kind = "q2"
  /\ sent' = Append(sent, Msg("edit", "final", model_responses))
  /\ hpc' = "idle"
  /\ ClearFan
  /\ UNCHANGED << update_queue, arrived, store, cur, summaries, last_accepted >>
  /\ UNCHANGED << call, stt >>

\* Variant: only the answers of the backends that succeeded are embedded.
responses_text_successes_only(mr) ==
  SelectSeq([i \in 1..Len(mr) |->
               [label |-> "Answer from", name |-> mr[i].name, response |-> mr[i].response]],
            LAMBDA a : a.response.kind = "answer")

\* ask_quorum, responses_text: one "Answer from {name}:\n{response}" block
\* per gathered result, in the order of model_responses
responses_text(mr) ==
  [i \in 1..Len(mr) |->
     [label |-> "Answer from", name |-> mr[i].name, response |-> mr[i].response]]

\* ask_quorum after the gather: the synthesis request to FINAL_MODEL
Synthesize ==
  /\ hpc = "gathered"
  /\ cur.text.kind = "q1"
  /\ sent' = Append(sent, Msg("edit", "progress", "Synthesizing final answer"))
  /\ requests' = Append(requests,
       [unit |-> 0, model |-> FINAL_MODEL.id,
        prompt |-> format_message_context(user_message(cur.text, "question"),
                                          get_context_data(db).history, battle_mode),
        responses |-> responses_text(model_responses)])
  /\ hpc' = "synth"
  /\ UNCHANGED << update_queue, arrived, store, cur, summaries,
                  last_accepted, models, battle_mode, status_dict, status_lock,
                  tpc, http, response, completed, model_responses >>
  /\ UNCHANGED << call, stt >>

\* Variant: a failed synthesis request yields an empty answer.
synthesis_result_swallows_failure(outcome) ==
  IF outcome = "ok" THEN [kind |-> "answer", detail |-> "content"]
                    ELSE [kind |-> "answer", detail |-> ""]

\* ask_quorum from the synthesizer's HTTP reply on: the text it returns
synthesis_result(outcome) ==
  CASE outcome = "ok"        -> [kind |-> "answer", detail |-> "content"]
    [] outcome = "status"    -> [kind |-> "Error from Claude", detail |-> "API returned status"]
    [] outcome = "exception" -> [kind |-> "Error from Claude", detail |-> "exception"]

\* Position of the synthesizer's outcome in http, after the units' outcomes.
SynthSlot == Len(models) + 1

\* The synthesis request ends; ask_quorum returns its text to the handler.
SynthReturns ==
  /\ hpc = "synth"
  /\ \E o \in Outcomes :
       /\ http' = Append(http, o)
       /\ response' = Append(response, synthesis_result(o))
  /\ hpc' = "synthesized"
  /\ UNCHANGED << update_queue, arrived, store, cur, sent, summaries,
                  last_accepted, models, battle_mode, status_dict, status_lock,
                  tpc, requests, completed, model_responses >>
  /\ UNCHANGED << call, stt >>

\* handle_message after ask_quorum returned: the text is delivered by
\* editing the progress message and the handler returns.
DeliverQ1 ==
  /\ hpc = "synthesized"
  /\ sent' = Append(sent, Msg("edit", "final", response[SynthSlot]))
  /\ hpc' = "idle"
  /\ ClearFan
  /\ UNCHANGED << update_queue, arrived, store, cur, summaries, last_accepted >>
  /\ UNCHANGED << call, stt >>

Next ==
  \/ Arrive
  \/ StartBattle
  \/ StopBattle
  \/ SummaryReturns
  \/ HandleOther
  \/ HandleQ2
  \/ HandleQ1
  \/ \E i \in 1..3 : BackendReturns(i)
  \/ \E i \in 1..3 : TakeLock(i)
  \/ \E i \in 1..3 : EditDone(i)
  \/ GatherReturns
  \/ DeliverQ2
  \/ Synthesize
  \/ SynthReturns
  \/ DeliverQ1

Spec == Init /\ [][Next]_vars

\* The same handlers under a longer chat without quorum questions.
NextChat ==
  \/ ArriveChat
  \/ StartBattle
  \/ StopBattle
  \/ SummaryReturns
  \/ HandleOther
  \/ HandleQ2
  \/ \E i \in 1..3 : BackendReturns(i)
  \/ \E i \in 1..3 : TakeLock(i)
  \/ \E i \in 1..3 : EditDone(i)
  \/ GatherReturns
  \/ DeliverQ2

SpecChat == Init /\ [][NextChat]_vars

\* The same handlers under well-formed and malformed q2 commands.
NextQ2 ==
  \/ ArriveQ2
  \/ HandleOther
  \/ HandleQ2
  \/ \E i \in 1..3 : BackendReturns(i)
  \/ \E i \in 1..3 : TakeLock(i)
  \/ \E i \in 1..3 : EditDone(i)
  \/ GatherReturns
  \/ DeliverQ2

SpecQ2 == Init /\ [][NextQ2]_vars

\* The fan-out under a transport whose status edits may fail.
NextEdit ==
  \/ ArriveEdit
  \/ HandleQ2
  \/ \E i \in 1..3 : BackendReturns(i)
  \/ \E i \in 1..3 : TakeLock(i)
  \/ \E i \in 1..3 : EditDone(i)
  \/ \E i \in 1..3 : EditFails(i)
  \/ \E i \in 1..3 : TakeLockError(i)
  \/ \E i \in 1..3 : ErrorEditDone(i)
  \/ \E i \in 1..3 : ErrorEditFails(i)
  \/ GatherReturns
  \/ GatherRaises
  \/ StragglersEnd
  \/ DeliverQ2

SpecEdit == Init /\ [][NextEdit]_vars

\* ---------------------------------------------------------------------
\* The functions of main.py applied to bounded arguments.
bot == << update_queue, arrived, store, hpc, cur, summaries, last_accepted, fan >>

\* split_long_message(text, max_length) returns its chunks.
SplitLongMessage ==
  /\ fpc = "called"
  /\ arg.fn = "split_long_message"
  /\ ret' = split_long_message(arg.text, arg.max_length)
  /\ fpc' = "returned"
  /\ UNCHANGED << bot, stt, sent, arg >>

\* handle_message: the first chunk replaces the progress message, every
\* further chunk is sent as a new message.
SendChunks ==
  /\ fpc = "returned"
  /\ arg.fn = "split_long_message"
  /\ sent' = [k \in 1..Len(ret) |->
               Msg(IF k = 1 THEN "edit" ELSE "reply", "final", ret[k])]
  /\ fpc' = "sent"
  /\ UNCHANGED << bot, stt, arg, ret >>

\* ask_openrouter(model) returns.
AskOpenrouter ==
  /\ fpc = "called"
  /\ arg.fn = "ask_openrouter"
  /\ ret' = ask_openrouter(arg.model, arg.outcome)
  /\ fpc' = "returned"
  /\ UNCHANGED << bot, stt, sent, arg >>

\* parse_scores_from_summary(summary_text) returns its table.
ParseScores ==
  /\ fpc = "called"
  /\ arg.fn = "parse_scores_from_summary"
  /\ ret' = parse_scores_from_summary(arg.lines)
  /\ fpc' = "returned"
  /\ UNCHANGED << bot, stt, sent, arg >>

\* format_scoreboard(summary_text, scores) returns its text.
FormatScoreboard ==
  /\ fpc = "called"
  /\ arg.fn = "format_scoreboard"
  /\ ret' = format_scoreboard(arg.scores)
  /\ fpc' = "returned"
  /\ UNCHANGED << bot, stt, sent, arg >>

\* remove_markdown(text) returns the cleaned text.
RemoveMarkdown ==
  /\ fpc = "called"
  /\ arg.fn = "remove_markdown"
  /\ ret' = remove_markdown(arg.text)
  /\ fpc' = "returned"
  /\ UNCHANGED << bot, stt, sent, arg >>

NextFun ==
  \/ SplitLongMessage
  \/ SendChunks
  \/ AskOpenrouter
  \/ ParseScores
  \/ FormatScoreboard
  \/ RemoveMarkdown

SpecFun == InitFun /\ [][NextFun]_vars

\* ------------------------------------------------------------ STT server
\* stt-server.py serves every /transcribe request in a thread of its own
\* (app.run(..., threaded=True)); all threads of the process use the same
\* temp_path, "/tmp/whisper_upload_<pid>.wav". The audio a request uploads
\* is named by the request.

\* mlx_whisper.transcribe(temp_path, ...): the text of the audio it read
mlx_whisper_transcribe(audio) == [transcript_of |-> audio]

\* jsonify({'text': text, ...})
ok_answer(audio) == [status |-> 200, text |-> mlx_whisper_transcribe(audio)]

\* jsonify({'error': ...}), 400 or 500; an exception that leaves the view
\* is answered 500 by Flask
error_answer(status) == [status |-> status]

Answer(r, a) ==
  /\ answer' = [answer EXCEPT ![r] = a]
  /\ rpc' = [rpc EXCEPT ![r] = "done"]

\* "if 'file' not in request.files: return ..., 400"
NoFile(r) ==
  /\ rpc[r] = "new"
  /\ Answer(r, error_answer(400))
  /\ UNCHANGED << bot, sent, call, inference_lock, model_cache, temp_file, loaded >>

\* audio_file.save(temp_path)
SaveUpload(r) ==
  /\ rpc[r] = "new"
  /\ temp_file' = r
  /\ rpc' = [rpc EXCEPT ![r] = "saved"]
  /\ UNCHANGED << bot, sent, call, inference_lock, model_cache, loaded, answer >>

\* Variant: the inference block is entered without waiting for the lock.
Acquire_unlocked(r) ==
  /\ rpc[r] = "saved"
  /\ inference_lock' = r
  /\ model_cache' = TRUE
  /\ rpc' = [rpc EXCEPT ![r] = "locked"]
  /\ UNCHANGED << bot, sent, call, temp_file, loaded, answer >>

\* "with inference_lock:" is entered and the model marked as loaded.
Acquire(r) ==
  /\ rpc[r] = "saved"
  /\ inference_lock = 0
  /\ inference_lock' = r
  /\ model_cache' = TRUE
  /\ rpc' = [rpc EXCEPT ![r] = "locked"]
  /\ UNCHANGED << bot, sent, call, temp_file, loaded, answer >>

\* mlx_whisper.transcribe is called and reads the file at temp_path; without
\* a file it raises, which leaves the with block and releases the lock.
TranscribeStarts(r) ==
  /\ rpc[r] = "locked"
  /\ IF temp_file = 0
       THEN /\ inference_lock' = 0
            /\ rpc' = [rpc EXCEPT ![r] = "except"]
            /\ UNCHANGED loaded
       ELSE /\ loaded' = [loaded EXCEPT ![r] = temp_file]
            /\ rpc' = [rpc EXCEPT ![r] = "infer"]
            /\ UNCHANGED inference_lock
  /\ UNCHANGED << bot, sent, call, model_cache, temp_file, answer >>

\* mlx_whisper.transcribe returns its result; the with block is left.
TranscribeReturns(r) ==
  /\ rpc[r] = "infer"
  /\ inference_lock' = 0
  /\ rpc' = [rpc EXCEPT ![r] = "inferred"]
  /\ UNCHANGED << bot, sent, call, model_cache, temp_file, loaded, answer >>

\* mlx_whisper.transcribe raises (audio that cannot be decoded, a failure of
\* the GPU); the with block is left.
TranscribeRaises(r) ==
  /\ rpc[r] = "infer"
  /\ inference_lock' = 0
  /\ rpc' = [rpc EXCEPT ![r] = "except"]
  /\ UNCHANGED << bot, sent, call, model_cache, temp_file, loaded, answer >>

\* os.remove(temp_path) and the 200 response; os.remove raises when the file
\* is gone.
RemoveAndReturn(r) ==
  /\ rpc[r] = "inferred"
  /\ IF temp_file = 0
       THEN /\ rpc' = [rpc EXCEPT ![r] = "except"]
            /\ UNCHANGED << temp_file, answer >>
       ELSE /\ temp_file' = 0
            /\ Answer(r, ok_answer(loaded[r]))
  /\ UNCHANGED << bot, sent, call, inference_lock, model_cache, loaded >>

\* except branch: "if os.path.exists(temp_path):", else the 500 response
ExceptExists(r) ==
  /\ rpc[r] = "except"
  /\ IF temp_file # 0
       THEN /\ rpc' = [rpc EXCEPT ![r] = "except_remove"]
            /\ UNCHANGED answer
       ELSE Answer(r, error_answer(500))
  /\ UNCHANGED << bot, sent, call, inference_lock, model_cache, temp_file, loaded >>

\* except branch: os.remove(temp_path) and the 500 response; when the file
\* is gone by now the exception leaves the view.
ExceptRemove(r) ==
  /\ rpc[r] = "except_remove"
  /\ temp_file' = 0
  /\ Answer(r, error_answer(500))
  /\ UNCHANGED << bot, sent, call, inference_lock, model_cache, loaded >>

NextStt ==
  \E r \in Requests :
    \/ NoFile(r)
    \/ SaveUpload(r)
    \/ Acquire(r)
    \/ TranscribeStarts(r)
    \/ TranscribeReturns(r)
    \/ TranscribeRaises(r)
    \/ RemoveAndReturn(r)
    \/ ExceptExists(r)
    \/ ExceptRemove(r)

SpecStt == Init /\ [][NextStt]_vars

\* ======================================================================
\* Properties
\* ======================================================================
Units == 1..Len(models)

\* The fan-out has returned to its caller (the gather is over, the handler
\* has not yet returned).
FanOutReturned == hpc \in {"gathered", "synth", "synthesized"}

Failed(i) == http[i] \in {"status", "exception"}

\* C1: for every list of backends and every completion order, the fan-out
\* returns one result per submitted backend, in submission order: the i-th
\* result carries the i-th backend's display name and that backend's reply.
C1_SubmissionOrder ==
  FanOutReturned =>
    /\ Len(model_responses) = Len(models)
    /\ \A i \in Units :
         /\ model_responses[i].name = models[i].name
         /\ model_responses[i].response.model = models[i].id

\* C1 witness: a fan-out has returned whose first submitted backend was not
\* the first to complete, with one success and one failure among the calls.
C1_Witness ==
  /\ hpc = "gathered"
  /\ Len(models) >= 2
  /\ completed[1] # 1
  /\ \E i, j \in Units : http[i] = "ok" /\ Failed(j)

C3_AllTerminal ==
  FanOutReturned =>
    /\ \A i \in Units : tpc[i] = "done"
    /\ \A i \in Units : status_dict[models[i].name] \in {"done", "error"}
    /\ \A n \in DOMAIN status_dict : status_dict[n] # "waiting.."

\* C3 witness: the quorum fan-out has returned after its units completed in
\* the order 3, 1, 2.
C3_Witness ==
  /\ FanOutReturned
  /\ Len(models) = 3
  /\ completed = <<3, 1, 2>>

\* C4 (as claimed): once a unit has written its board entry, the entry is
\* error if the backend's call failed and done if it succeeded.
C4_FailedShownAsError ==
  \A i \in Units :
    tpc[i] \in {"edit", "done"} =>
      status_dict[models[i].name] = IF Failed(i) THEN "error" ELSE "done"

\* The step in which handle_message takes an update of the given kind.
Handling(kind) ==
  /\ CanHandle(kind)
  /\ cur' = Next_update
  /\ update_queue' = Tail(update_queue)

RejectedStart == Handling("start_battle") /\ battle_active
RejectedStop  == Handling("stop_battle") /\ ~ battle_active

\* C5: a start_battle handled while a battle is active, and a stop_battle
\* handled while none is, reply with one error message, append no record,
\* issue no summary request and leave the flag and the start time as they
\* were; the handler returns at once.
C5_RejectedUnchanged ==
  [][ (RejectedStart \/ RejectedStop) =>
        /\ db' = db
        /\ battle_active' = battle_active
        /\ battle_started_at' = battle_started_at
        /\ summaries' = summaries
        /\ hpc' = "idle"
        /\ Len(sent') = 1
        /\ sent'[1].op = "reply"
        /\ sent'[1].kind = "error" ]_vars

\* C5 witness: a start_battle was rejected during a battle that has records
\* of its own, and the battle is still on with its start time.
C5_Witness ==
  /\ hpc = "idle"
  /\ cur.text.kind = "start_battle"
  /\ Len(sent) = 1
  /\ sent[1].kind = "error"
  /\ battle_active
  /\ battle_started_at # NoTs
  /\ Len(db) > battle_started_at

\* The records of the battle started by record k: from k to the first
\* stored stop_battle after it (to the end of the log while it is on).
BattleEnd(k) ==
  LET E == {e \in (k+1)..Len(db) : db[e].text = "stop_battle"}
  IN  IF E = {} THEN 0 ELSE CHOOSE e \in E : \A f \in E : e <= f

SummariesOf(t0) == {m \in 1..Len(summaries) : summaries[m].since = t0}

\* C6 (as claimed): for every battle, started at T0, at most one summary
\* request is ever issued; once the battle has been ended by a stop_battle
\* there is exactly one, sent to FINAL_MODEL with the records from the start
\* command at T0 to that stop command.
C6_SummaryOncePerBattle ==
  \A k \in 1..Len(db) :
    db[k].text = "start_battle" =>
      /\ Cardinality(SummariesOf(db[k].ts)) <= 1
      /\ BattleEnd(k) # 0 =>
           /\ Cardinality(SummariesOf(db[k].ts)) = 1
           /\ \A m \in SummariesOf(db[k].ts) :
                /\ summaries[m].model = FINAL_MODEL.id
                /\ summaries[m].history = SubSeq(db, k, BattleEnd(k))

SummaryFailed(body) ==
  body.summary \in { "Error generating battle summary: API returned status",
                     "Error generating battle summary: exception" }

\* The handler of a stop_battle that passed the state check has returned
\* after the summary backend failed.
StopReturnedAfterFailure ==
  /\ hpc = "idle"
  /\ cur.text.kind = "stop_battle"
  /\ Len(sent) = 2
  /\ sent[2].kind = "final"
  /\ SummaryFailed(sent[2].body)

\* C7 (as claimed): when the summary backend fails during an accepted
\* stop_battle, the error text is delivered in place of the summary and the
\* battle is idle afterwards (so the next stop_battle is rejected and the
\* next start_battle accepted).
C7_IdleAfterFailedSummary ==
  StopReturnedAfterFailure =>
    /\ sent[2].body.scores = "empty"
    /\ ~ battle_active
    /\ battle_started_at = NoTs

\* C8: in every reachable state of the battle session the start time is
\* set if and only if the active flag is true.
C8_StartedIffActive ==
  battle_active <=> (is_battle_mode_active[2] # NoTs)

\* C8 witness: a second battle is on: its start time is set, and the log
\* holds the stop command that ended an earlier battle.
C8_Witness ==
  /\ battle_active
  /\ battle_started_at >= 3
  /\ \E k \in 1..Len(db) : db[k].text = "stop_battle"

AcceptedStart == Handling("start_battle") /\ ~ battle_active
AcceptedStop  == Handling("stop_battle") /\ battle_active

\* C9 (as claimed): the machine starts idle; a start_battle is accepted
\* exactly when the state is idle and a stop_battle exactly when it is
\* active; accepted starts and accepted stops strictly alternate: an
\* accepted start never follows an accepted start, an accepted stop always
\* follows an accepted start.
C9_StartsAndStopsAlternate ==
  [][ /\ AcceptedStart => (last_accepted' = "start" /\ last_accepted # "start")
      /\ AcceptedStop  => (last_accepted' = "stop"  /\ last_accepted = "start")
      /\ (RejectedStart \/ RejectedStop) => last_accepted' = last_accepted ]_vars

\* C10: every prompt built while an update is handled embeds the window the
\* battle state selects: during a battle the records since the battle
\* start under the battle label, otherwise the last N records under the
\* last-N label; label and window never disagree.
C10_WindowFollowsBattleState ==
  \A k \in 1..Len(requests) :
    LET p == requests[k].prompt IN
      IF battle_active
        THEN /\ p.label = "Battle history (all messages since battle started):"
             /\ p.history = get_messages_since(db, battle_started_at)
             /\ p.battle_instructions
        ELSE /\ p.label = "Last 100 messages from chat:"
             /\ p.history = get_last_messages(db, LastN)
             /\ ~ p.battle_instructions

\* C10 witness: a question is in flight during a battle that began after
\* earlier chat records, so that the since-start window is a proper part
\* of the log.
C10_Witness ==
  /\ hpc = "gather"
  /\ battle_active
  /\ Len(requests) >= 1
  /\ requests[1].prompt.history = get_messages_since(db, battle_started_at)
  /\ Len(requests[1].prompt.history) < Len(db)
  /\ Len(requests[1].prompt.history) >= 2


\* ----------------------------------------------------------------------
\* The requests made to the synthesizer so far by the running handler.
SynthRequests == {k \in 1..Len(requests) : requests[k].unit = 0}

\* C11: in the two-stage flow the synthesizer is called exactly once, only
\* after every backend of the fan-out has returned, and its prompt embeds the
\* labelled result of every backend, failures included, in submission order.
C11_SynthesisAfterAllResults ==
  /\ Cardinality(SynthRequests) <= 1
  /\ (hpc \in {"gather", "gathered"} \/ cur.text.kind # "q1") => SynthRequests = {}
  /\ hpc \in {"synth", "synthesized"} => Cardinality(SynthRequests) = 1
  /\ \A k \in SynthRequests :
       /\ requests[k].model = FINAL_MODEL.id
       /\ \A i \in Units : tpc[i] = "done" /\ http[i] # "pending"
       /\ Len(requests[k].responses) = Len(QUORUM_MODELS)
       /\ \A i \in 1..Len(QUORUM_MODELS) :
            /\ requests[k].responses[i].label = "Answer from"
            /\ requests[k].responses[i].name = QUORUM_MODELS[i].name
            /\ requests[k].responses[i].response = response[i]
            /\ response[i].model = QUORUM_MODELS[i].id

\* The synthesizer has been called after a fan-out in which a backend
\* failed and the backends completed out of submission order.
C11_Witness ==
  /\ hpc = "synth"
  /\ SynthRequests # {}
  /\ \E i \in Units : Failed(i)
  /\ completed[1] # 1

\* The handler of a quorum question delivers the text ask_quorum returned.
DeliversSynthesis == hpc = "synthesized" /\ hpc' = "idle"

SynthFailed == http[SynthSlot] \in {"status", "exception"}

\* C12: when the call to the synthesizer fails, the results of the first
\* stage are discarded and the final answer delivered to the user is an
\* error text stating the failure.
C12_SynthesisFailureDelivered ==
  [][(DeliversSynthesis /\ SynthFailed) =>
       /\ Len(sent') = Len(sent) + 1
       /\ sent'[Len(sent')].op = "edit"
       /\ sent'[Len(sent')].kind = "final"
       /\ sent'[Len(sent')].body.kind = "Error from Claude"
       /\ sent'[Len(sent')].body.detail =
            (IF http[SynthSlot] = "status" THEN "API returned status" ELSE "exception")
       /\ model_responses' = <<>>]_vars

\* A quorum question has been answered with the synthesizer's error text
\* although every backend of the first stage had answered.
C12_Witness ==
  /\ hpc = "idle"
  /\ cur.text.kind = "q1"
  /\ Len(sent) > 2
  /\ sent[Len(sent)].kind = "final"
  /\ sent[Len(sent)].body.kind = "Error from Claude"

\* ----------------------------------------------------------------------
\* What parse_q2_models rejects, stated on the text: no closing
\* parenthesis, an empty backend list, an empty question, an unknown name.
Malformed(text) ==
  \/ ~ text.paren
  \/ text.names = <<>>
  \/ ~ text.question
  \/ \E i \in 1..Len(text.names) : text.names[i] \notin Range(AvailableNames)

\* C14: a malformed q2 command (missing closing parenthesis, empty backend
\* list, unknown backend name, empty question) produces exactly one error
\* message to the user and nothing else: no dispatch, no backend call, no
\* status board, nothing appended to the history.
C14_MalformedQ2OnlyError ==
  [][(Handling("q2") /\ Malformed(Next_update.text)) =>
       /\ Len(sent') = 1
       /\ sent'[1].op = "reply"
       /\ sent'[1].kind = "error"
       /\ UNCHANGED << db, battle_active, battle_started_at >>
       /\ requests' = <<>>
       /\ models' = <<>>
       /\ tpc' = <<>>
       /\ status_dict' = NoStatus
       /\ hpc' = "idle"
       /\ UNCHANGED << summaries, last_accepted >>]_vars

\* A q2 command without ")" from a known author has been answered with one
\* error message while the history holds an earlier chat message.
C14_Witness ==
  /\ hpc = "idle"
  /\ cur.text.kind = "q2"
  /\ ~ cur.text.paren
  /\ cur.user # "none"
  /\ Len(sent) = 1
  /\ sent[1].kind = "error"
  /\ Len(db) = 1

\* The names of a q2 text that are no key of AVAILABLE_MODELS, in the order
\* written.
UnknownNames(text) ==
  SelectSeq(text.names, LAMBDA n : \A j \in 1..Len(AvailableNames) : AvailableNames[j] # n)

\* C15: when a q2 command with a non-empty question names at least one
\* unknown backend, the error lists exactly the unknown names in the order
\* given together with the full list of available backends, and no backend
\* is called, not even the valid ones named beside them.
C15_UnknownNamesListed ==
  [][(/\ Handling("q2")
      /\ Next_update.text.paren
      /\ Next_update.text.question
      /\ UnknownNames(Next_update.text) # <<>>) =>
       /\ Len(sent') = 1
       /\ sent'[1].kind = "error"
       /\ sent'[1].body.error = "Unknown models"
       /\ sent'[1].body.unknown = UnknownNames(Next_update.text)
       /\ sent'[1].body.available = <<"deepseek", "chatgpt", "grok", "claude", "gpt4", "gpt-4o">>
       /\ requests' = <<>>
       /\ models' = <<>>
       /\ hpc' = "idle"]_vars

\* A q2 command naming a known backend between two unknown ones has been
\* answered with the error that lists the two unknown names.
C15_Witness ==
  /\ hpc = "idle"
  /\ cur.text.kind = "q2"
  /\ cur.text.names = <<"gpt5", "grok", "glaude">>
  /\ Len(sent) = 1
  /\ sent[1].kind = "error"
  /\ sent[1].body.unknown = <<"gpt5", "glaude">>

\* ----------------------------------------------------------------------
\* Everything but the history that handling an unmatched text could touch:
\* no reply, no backend call, no change of the battle state.
NothingButHistory ==
  /\ sent' = <<>>
  /\ requests' = requests
  /\ summaries' = summaries
  /\ hpc' = "idle"
  /\ UNCHANGED << battle_active, battle_started_at, last_accepted, models, tpc >>

\* C16 as stated: a text that matches none of the four commands appends
\* exactly one record to the history and has no other effect.
C16_UnmatchedAppendsOne ==
  [][Handling("other") =>
       /\ Len(db') = Len(db) + 1
       /\ SubSeq(db', 1, Len(db)) = db
       /\ db'[Len(db')].text = "other"
       /\ NothingButHistory]_vars

\* C16, amended: a text that matches none of the four commands appends
\* exactly one record to the history when the message has an author and
\* none when it has no author; in both cases it has no other effect.
C16_UnmatchedAppendsOneIfAuthor ==
  [][Handling("other") =>
       /\ IF Next_update.user # "none"
            THEN /\ Len(db') = Len(db) + 1
                 /\ SubSeq(db', 1, Len(db)) = db
                 /\ db'[Len(db')].text = "other"
                 /\ db'[Len(db')].user = Next_update.user
            ELSE db' = db
       /\ NothingButHistory]_vars

\* During a battle an unmatched text without author has been handled after
\* one with an author: the history holds the start command and one text.
C16_Witness ==
  /\ hpc = "idle"
  /\ cur.text.kind = "other"
  /\ cur.user = "none"
  /\ sent = <<>>
  /\ battle_active
  /\ Len(db) = 2
  /\ db[2].text = "other"

\* ----------------------------------------------------------------------
\* C17: every prompt sent to a backend contains user-authored text only in
\* sanitized form, with every phrase of the block list removed: the current
\* question, and the user text that reaches the prompt through the embedded
\* chat history or battle history.
C17_PromptsSanitized ==
  /\ \A k \in 1..Len(requests) :
       /\ ~ HasOverride(requests[k].prompt.question)
       /\ \A j \in 1..Len(requests[k].prompt.history) :
            ~ HasOverride(requests[k].prompt.history[j].text)
  /\ \A k \in 1..Len(summaries) :
       \A j \in 1..Len(summaries[k].history) :
         ~ HasOverride(summaries[k].history[j].text)

\* ----------------------------------------------------------------------
\* C13: a call to a single backend never raises: for every failure of the
\* HTTP call, of reading the history or context, or of decoding the reply,
\* it returns a value, an error text naming the backend and the failure.
C13_BackendCallReturnsValue ==
  (arg.fn = "ask_openrouter" /\ fpc = "returned") =>
    /\ ret.kind \in {"answer", "Error from"}
    /\ ret.kind = "answer" <=> arg.outcome = "ok"
    /\ ret.model = arg.model
    /\ arg.outcome # "ok" =>
         ret.detail = (IF arg.outcome = "status" THEN "API returned status" ELSE "exception")

\* A call whose read of the context failed has returned an error text.
C13_Witness ==
  /\ arg.fn = "ask_openrouter"
  /\ arg.outcome = "context_error"
  /\ fpc = "returned"
  /\ ret.kind = "Error from"

\* split_long_message has been applied and has returned.
SplitReturned == arg.fn = "split_long_message" /\ fpc \in {"returned", "sent"}

\* C18: every final answer or battle summary handed to the transport, by
\* edit or by send, has a length of at most max_length (4000).
C18_DeliveredWithinLimit ==
  (arg.fn = "split_long_message" /\ fpc = "sent") =>
    \A k \in 1..Len(sent) : Len(sent[k].body) <= arg.max_length

\* No paragraph of the text is longer than max_length.
NoOversizedParagraph(text, max_length) ==
  \A k \in 1..Len(split_blank_line(text)) : Len(split_blank_line(text)[k]) <= max_length

TrimmedParagraphs(text) ==
  \A k \in 1..Len(split_blank_line(text)) :
    LET q == split_blank_line(text)[k]
    IN  q # <<>> /\ q[1] \notin Whitespace /\ q[Len(q)] \notin Whitespace

C20_ShortTextOneChunk ==
  (SplitReturned /\ Len(arg.text) <= arg.max_length) => ret = << arg.text >>

\* A text of exactly max_length characters that begins with a blank has
\* been returned as its one chunk.
C20_Witness ==
  /\ SplitReturned
  /\ Len(arg.text) = arg.max_length
  /\ arg.text[1] = " "
  /\ ret = << arg.text >>

\* ----------------------------------------------------------------------
\* The units that have issued a status edit and await its completion.
InEdit == {i \in Units : tpc[i] \in {"edit", "eedit"}}

\* C25: no backend worker holds the status lock across an I/O suspension
\* point: the lock is released before the worker awaits the transport edit,
\* so a slow edit never makes another finished worker wait for the lock.
C25_LockFreeDuringEdit ==
  \A i \in Units : tpc[i] \in {"edit", "eedit"} => status_lock = 0

\* The board as a reader sees it once unit i has written its entry: a name
\* is done when one of its units has written, pending otherwise.
SnapshotAt(tp) ==
  [k \in 1..Len(models) |->
     [name   |-> models[k].name,
      status |-> IF \E j \in Units : /\ models[j].name = models[k].name
                                      /\ tp[j] \in {"edit", "done"}
                   THEN "done" ELSE "waiting.."]]

\* C26: status updates are mutually exclusive: at most one worker at a time
\* is between updating its entry and finishing the publication of the
\* render built from it, and every published render is a snapshot of the
\* whole board taken at that update.
C26_StatusUpdatesExclusive ==
  [][/\ Cardinality(InEdit) <= 1
     /\ Cardinality(InEdit') <= 1
     /\ \A i \in Units :
          (tpc[i] = "lock" /\ tpc'[i] = "edit") =>
            /\ InEdit = {}
            /\ Len(sent') = Len(sent) + 1
            /\ sent'[Len(sent')].kind = "status"
            /\ sent'[Len(sent')].body = SnapshotAt(tpc')]_vars

\* One unit awaits its edit with the first unit done and the third one
\* waiting for the lock; the last board published shows two names done.
C26_Witness ==
  /\ hpc = "gather"
  /\ tpc = << "done", "edit", "lock" >>
  /\ sent[Len(sent)].kind = "status"
  /\ sent[Len(sent)].body[2].status = "done"
  /\ sent[Len(sent)].body[3].status = "waiting.."

\* The status edits issued while handling cur.
StatusEdits == {k \in 1..Len(sent) : sent[k].op = "edit" /\ sent[k].kind = "status"}

\* C29: with no transport failure, a dispatch to N backends publishes the
\* board once with every backend pending before any backend call
\* completes, and then once per backend status update: N+1 status edits
\* have been issued when the fan-out returns.
C29_OneEditPerUpdate ==
  hpc \in {"gather", "gathered"} =>
    /\ Len(sent) >= 2
    /\ sent[2].op = "edit" /\ sent[2].kind = "status"
    /\ \A k \in 1..Len(models) : sent[2].body[k].status = "waiting.."
    /\ Cardinality(StatusEdits) = 1 + Cardinality({i \in Units : tpc[i] \in {"edit", "done"}})
    /\ hpc = "gathered" => Cardinality(StatusEdits) = Len(models) + 1

\* The fan-out to the three quorum backends has returned after four status
\* edits.
C29_Witness ==
  /\ hpc = "gathered"
  /\ Len(models) = 3
  /\ Cardinality(StatusEdits) = 4

\* C27: a failed status edit is fire-and-forget: the dispatch still returns
\* the results of all backends, and the result of the affected backend is
\* still the text its call returned.
C27_EditFailureForgotten ==
  /\ hpc # "failed"
  /\ hpc = "gathered" =>
       \A i \in Units : model_responses[i].response = ask_openrouter(models[i].id, http[i])

\* C28: when ask_selected_models or ask_quorum returns or raises, none of
\* the backend units it launched is still running.
C28_NoUnitOutlivesFanOut ==
  hpc \in {"gathered", "failed"} => \A i \in Units : tpc[i] \in {"done", "raised"}

\* C30: on an accepted stop_battle the active flag is cleared only after
\* the summary has been generated; the battle is still active while the
\* summary is being produced.
C30_ActiveWhileSummarizing == hpc = "summary" => battle_active

\* ----------------------------------------------------------------------
\* parse_scores_from_summary has been applied and has returned.
ScoresReturned == arg.fn = "parse_scores_from_summary" /\ fpc = "returned"

\* C21: every score in the table returned by parse_scores_from_summary
\* lies in [0,1000], on the pattern-cascade path and on the line-by-line
\* fallback path.
C21_ScoresInRange ==
  ScoresReturned => \A k \in 1..Len(ret) : 0 <= ret[k].score /\ ret[k].score <= 1000

\* A summary of two bare lines, read by the fallback: the number above
\* 1000 is dropped, the number 1000 is kept.
C21_Witness ==
  /\ ScoresReturned
  /\ Len(arg.lines) = 2
  /\ arg.lines[1] = [form |-> "bare", name |-> "bob", value |-> 1001]
  /\ arg.lines[2] = [form |-> "bare", name |-> "eve", value |-> 1000]
  /\ ret = << [name |-> "eve", score |-> 1000] >>

\* The valid matches the function read its table from: those of the
\* patterns, or those of the fallback when the patterns gave no valid one.
ValidCascade(lines) ==
  SelectSeq(cascade_matches(patterns, lines), LAMBDA m : 0 <= m.score /\ m.score <= 1000)

ValidFallback(lines) ==
  SelectSeq([k \in 1..Len(lines) |-> fallback_match(lines[k])],
            LAMBDA m : 0 <= m.score /\ m.score <= 1000 /\ m.name \notin {"Score", "Participant"})

ValidMatches(lines) ==
  IF ValidCascade(lines) # <<>> THEN ValidCascade(lines) ELSE ValidFallback(lines)

\* C22: for every name matched more than once the returned score is the
\* maximum of all valid matches for that name, whichever strategy or the
\* fallback produced them and in whatever order they occur.
C22_MaximumPerName ==
  ScoresReturned =>
    LET ms == ValidMatches(arg.lines) IN
      \A k \in 1..Len(ret) :
        \A j \in 1..Len(ms) : ms[j].name = ret[k].name => ms[j].score <= ret[k].score

\* ----------------------------------------------------------------------
\* format_scoreboard has been applied to a non-empty table and has returned.
BoardReturned ==
  arg.fn = "format_scoreboard" /\ fpc = "returned" /\ arg.scores # <<>>

\* The place of a name in the table handed in.
Encounter(name) == CHOOSE k \in 1..Len(arg.scores) : arg.scores[k].name = name

\* C23: for every non-empty table format_scoreboard lists exactly one row
\* per name, in non-increasing score order with equal scores kept in
\* encounter order, marks only the first three rows, with distinct medals,
\* and announces as winner the name and score of the first row.
C23_RankedScoreboard ==
  BoardReturned =>
    LET rows == ret.rows IN
      /\ ~ ret.unable
      /\ Len(rows) = Len(arg.scores)
      /\ \A k \in 1..Len(arg.scores) :
           Cardinality({i \in 1..Len(rows) : rows[i].name = arg.scores[k].name}) = 1
      /\ \A i \in 1..Len(rows) : rows[i].score = arg.scores[Encounter(rows[i].name)].score
      /\ \A i, j \in 1..Len(rows) :
           i < j => /\ rows[i].score >= rows[j].score
                    /\ rows[i].score = rows[j].score =>
                         Encounter(rows[i].name) < Encounter(rows[j].name)
      /\ \A i \in 1..Len(rows) :
           rows[i].medal = (CASE i = 1 -> "gold" [] i = 2 -> "silver" [] i = 3 -> "bronze"
                              [] OTHER -> "  ")
      /\ ret.winner = << [name |-> rows[1].name, score |-> rows[1].score] >>

\* A table of four names whose first item has the lowest score: the sort
\* moves it to the fourth row, which has no medal, and the two first rows
\* tie.
C23_Witness ==
  /\ BoardReturned
  /\ Len(arg.scores) = 4
  /\ arg.scores[1].score < arg.scores[2].score
  /\ ret.rows[4].name = arg.scores[1].name
  /\ ret.rows[4].medal = "  "
  /\ ret.rows[1].score = ret.rows[2].score

\* ----------------------------------------------------------------------
\* C24: remove_markdown is idempotent: applied to a text it has returned,
\* it returns that text unchanged.
C24_Idempotent ==
  (arg.fn = "remove_markdown" /\ fpc = "returned") => remove_markdown(ret) = ret

\* ----------------------------------------------------------------------
\* The paragraphs of the text handed to split_long_message.
Paragraphs == split_blank_line(arg.text)

RECURSIVE drop_empty(_)
drop_empty(ps) == IF ps # <<>> /\ Head(ps) = <<>> THEN drop_empty(Tail(ps)) ELSE ps

\* The paragraphs a..b as one chunk before trimming: joined by the
\* separator, empty paragraphs at the front leaving nothing.
Joined(a, b) == join_blank_line(drop_empty(SubSeq(Paragraphs, a, b)))

\* A set of cuts C (a cut c lies between paragraphs c and c + 1) divides the
\* paragraphs into groups of consecutive paragraphs.
GroupStart(C, i) ==
  LET S == {1} \cup {c + 1 : c \in {x \in C : x < i}}
  IN  CHOOSE x \in S : \A y \in S : y <= x

GroupEnd(C, i) ==
  LET E == {c \in C : c >= i} \cup {Len(Paragraphs)}
  IN  CHOOSE x \in E : \A y \in E : x <= y

\* The chunks of the groups from paragraph s on: every group that is not
\* empty, trimmed.
RECURSIVE ChunksOf(_, _)
ChunksOf(C, s) ==
  IF s > Len(Paragraphs) THEN <<>>
  ELSE LET g == Joined(s, GroupEnd(C, s))
       IN  (IF g = <<>> THEN <<>> ELSE << strip(g) >>) \o ChunksOf(C, GroupEnd(C, s) + 1)

\* C31: for a text longer than max_length the chunks are the groups of a
\* division of the paragraphs, in order, such that every group of more than
\* one paragraph has length at most max_length, a chunk longer than
\* max_length is one whole paragraph, and a cut is made only where the next
\* paragraph with its separator would not fit into the current group.
C31_GreedyPacking ==
  (SplitReturned /\ Len(arg.text) > arg.max_length) =>
    \E C \in SUBSET (1..(Len(Paragraphs) - 1)) :
      /\ ret = IF ChunksOf(C, 1) # <<>> THEN ChunksOf(C, 1)
                ELSE << SubSeq(arg.text, 1, arg.max_length) >>
      /\ \A i \in 1..Len(Paragraphs) :
           GroupEnd(C, i) > GroupStart(C, i) =>
             Len(Joined(GroupStart(C, i), GroupEnd(C, i))) <= arg.max_length
      /\ \A k \in 1..Len(ret) :
           Len(ret[k]) > arg.max_length =>
             \E i \in 1..Len(Paragraphs) : ret[k] = strip(Paragraphs[i])
      /\ \A c \in C :
           Len(Joined(GroupStart(C, c), c)) + Len(Paragraphs[c + 1]) + 2 > arg.max_length

\* A text of three paragraphs has been split into a chunk of two paragraphs
\* and a chunk of one: the second paragraph fitted, the third did not.
C31_Witness ==
  /\ SplitReturned
  /\ Len(arg.text) > arg.max_length
  /\ Len(Paragraphs) = 3
  /\ TrimmedParagraphs(arg.text)
  /\ Len(ret) = 2
  /\ ret[1] = Paragraphs[1] \o << "\n", "\n" >> \o Paragraphs[2]
  /\ ret[2] = Paragraphs[3]

\* C37: for every non-empty text split_long_message returns at least one
\* chunk and no chunk is the empty text, so the edit with the first chunk
\* and every further send carry a non-empty text.
C37_NoEmptyChunk ==
  (SplitReturned /\ arg.text # <<>>) =>
    /\ ret # <<>>
    /\ \A k \in 1..Len(ret) : ret[k] # <<>>
    /\ \A k \in 1..Len(sent) : sent[k].body # <<>>

\* ----------------------------------------------------------------------
\* The requests inside the mlx_whisper.transcribe call.
InTranscribe == {r \in Requests : rpc[r] = "infer"}

\* C32: model inference is serialized: for every interleaving of concurrent
\* /transcribe requests at most one request is inside the
\* mlx_whisper.transcribe call at any time.
C32_InferenceSerialized == Cardinality(InTranscribe) <= 1

\* One request is inside the transcribe call while another, whose upload is
\* saved, waits for the lock.
C32_Witness ==
  \E r, q \in Requests :
    /\ rpc[r] = "infer"
    /\ rpc[q] = "saved"
    /\ inference_lock = r

\* C38: each /transcribe request that uploads audio is answered with the
\* transcription of the audio this same request uploaded, and its upload
\* file exists until its own inference has finished, for every interleaving
\* of the requests of one process.
C38_OwnAudioTranscribed ==
  \A r \in Requests :
    /\ (rpc[r] = "done" /\ answer[r].status # 400) =>
         answer[r] = [status |-> 200, text |-> mlx_whisper_transcribe(r)]
    /\ rpc[r] \in {"saved", "locked", "infer"} => temp_file = r

\* ----------------------------------------------------------------------
\* C33: during a fan-out, a backend is shown on a published status board as
\* done or error only if that backend's own call has completed, for every
\* selection, selections that name one display name twice included. The
\* k-th line of a board is the line of the k-th selected backend.
C33_ShownDoneOnlyIfCompleted ==
  hpc = "gather" =>
    \A e \in StatusEdits : \A k \in 1..Len(sent[e].body) :
      sent[e].body[k].status \in {"done", "error"} => http[k] # "pending"

\* The number of pending lines of the board published by status edit e.
PendingOn(e) ==
  Cardinality({k \in 1..Len(sent[e].body) : sent[e].body[k].status = "waiting.."})

\* C34: the status boards delivered to the transport during one fan-out
\* are monotone: once a backend has been published as done or error no
\* later board shows it as pending, and the number of pending entries
\* never increases from one published board to the next.
C34_BoardsMonotone ==
  \A e, f \in StatusEdits :
    e < f =>
      /\ \A k \in 1..Len(sent[e].body) :
           sent[e].body[k].status \in {"done", "error"} =>
             sent[f].body[k].status # "waiting.."
      /\ PendingOn(f) <= PendingOn(e)

\* Three boards of the three quorum backends have been published, with
\* three, two and one pending entries.
C34_Witness ==
  /\ hpc = "gather"
  /\ Len(models) = 3
  /\ Cardinality(StatusEdits) = 3
  /\ PendingOn(2) = 3 /\ PendingOn(3) = 2 /\ PendingOn(4) = 1

\* ----------------------------------------------------------------------
\* ask_quorum is under way or has just returned to the handler.
InQuorum == hpc \in {"gather", "gathered", "synth", "synthesized"} /\ Len(models) = 3

\* C35: within the handling of one q1 question every prompt built for it,
\* those of the fanned-out backends and that of the synthesis, uses the
\* battle-mode decision read at the dispatch and the history window that
\* goes with it (battle instructions and the records since the battle
\* start, or neither), whatever updates arrive while the calls are in
\* flight.
C35_OneBattleDecision ==
  InQuorum =>
    \A k \in 1..Len(requests) :
      LET p == requests[k].prompt IN
        /\ p.battle_instructions = battle_mode
        /\ p.label = (IF battle_mode
                        THEN "Battle history (all messages since battle started):"
                        ELSE "Last 100 messages from chat:")
        /\ p.history = (IF battle_mode THEN get_messages_since(db, battle_started_at)
                                       ELSE get_last_messages(db, LastN))
        /\ p = requests[1].prompt

\* The synthesis prompt of a question has been built, after those of the
\* three backends, while a battle command that arrived during the calls
\* waits to be handled.
C35_Witness ==
  /\ hpc = "synth"
  /\ Len(requests) = 4
  /\ update_queue # <<>>
  /\ Head(update_queue).text.kind \in {"start_battle", "stop_battle"}
  /\ Head(update_queue).user = "alice"

\* ----------------------------------------------------------------------
\* The handler takes the next update in this step.
Taking == update_queue # <<>> /\ update_queue' = Tail(update_queue) /\ cur' = Next_update

\* The update the handler takes is accepted: a battle command that fits the
\* battle state, a question, a well-formed q2 question, or unmatched text.
Accepted(u) ==
  CASE u.text.kind = "start_battle" -> ~ battle_active
    [] u.text.kind = "stop_battle"  -> battle_active
    [] u.text.kind = "q2"           -> /\ ~ Malformed(u.text)
                                       /\ UnknownNames(u.text) = <<>>
    [] OTHER                        -> TRUE

\* C36: every inbound text with a known author appends at most one record
\* to the history: exactly one, by that author, when it is accepted, none
\* when it is rejected, and no step other than the taking of an update
\* appends a record; the record is in the history from which the prompts
\* and the summary request of that event are built.
C36_OneRecordPerKnownAuthor ==
  [][IF Taking /\ Next_update.user # "none"
       THEN IF Accepted(Next_update)
              THEN /\ Len(db') = Len(db) + 1
                   /\ SubSeq(db', 1, Len(db)) = db
                   /\ db'[Len(db')].user = Next_update.user
                   /\ Next_update.text.kind = "q1" =>
                        db'[Len(db')].text = user_message(Next_update.text, "question")
                   /\ \A k \in 1..Len(requests') :
                        LET h == requests'[k].prompt.history
                        IN  h # <<>> /\ h[Len(h)] = db'[Len(db')]
                   /\ summaries' # summaries =>
                        LET h == summaries'[Len(summaries')].history
                        IN  h # <<>> /\ h[Len(h)] = db'[Len(db')]
              ELSE db' = db /\ requests' = <<>> /\ summaries' = summaries
       ELSE Taking \/ db' = db]_vars

\* The question of a known author has been stored after an earlier record
\* and its three backend calls are in flight.
C36_Witness ==
  /\ hpc = "gather"
  /\ cur.text.kind = "q1"
  /\ cur.user = "alice"
  /\ Len(db) = 2
  /\ db[2].text = "question"
  /\ Len(requests) = 3
=============================================================================
